---- MODULE Spec2Model ----
(***************************************************************************)
(* The asynchronous weight-synchronization engine of cuda-convnet/skynet   *)
(* (src/cuda-convnet/src/weights.cu): OutgoingWeights, IncomingWeights,    *)
(* WeightData and NetworkManager, with three threads of control:           *)
(*   - the compute thread (newId, NetworkManager::initialize, sendAndRecv),*)
(*   - the background MPI thread (_mpiThreadFn: handleRecv / handleSend),  *)
(*   - the caller of pauseMPI / resumeMPI,                                 *)
(* and the MPI transport as environment (completion of Isend requests,     *)
(* delivery of a message into a posted Irecv).                             *)
(*                                                                         *)
(* Every statement of the source that reads or writes shared state is one  *)
(* step; the program counters cpc / bpc / kpc name the statement about to  *)
(* run.  Unsynchronised flag reads (initialized, incReady, _pause,         *)
(* _isPaused) are single steps of their own.                               *)
(*                                                                         *)
(* A Matrix is a tuple of NumElems integers; an unsized Matrix is <<>>.    *)
(* The statistics counters _bytesSent, _bytesRecv and _timeWasted are only *)
(* logged and are left out.                                                *)
(*                                                                         *)
(* Specifications:                                                         *)
(*   Spec         one channel, the NetworkManager interface called         *)
(*                directly, with pauseMPI / resumeMPI;                     *)
(*   LiveSpec, CtlLiveSpec, SendLiveSpec   Spec under scheduling and       *)
(*                transport assumptions;                                   *)
(*   PairSpec     two channels, no pause;                                  *)
(*   HandleSpec   the trainer works through Weights handles (authoritative *)
(*                and mirror), with the background thread;                 *)
(*   CounterSpec  Weights handles and their update counts, no background   *)
(*                thread;                                                  *)
(*   PolicySpec   WeightCombiner::apply and AdagradCombiner::apply on      *)
(*                numbers.                                                 *)
(***************************************************************************)
EXTENDS Integers, Sequences, FiniteSets, TLC

\* ------------------------------------------------------------- bounds
MaxChannels == 1
MaxIds == 2
MaxUpdates == 1
MaxNoops == 1
MaxOwners == 1
MaxCalls == 2
MaxRecv == 2
MaxVal == 1
NumElems == 2
NumPeers == 1

Chan == 0 .. (MaxIds - 1)
\* ranks of the other participants (MPI::COMM_WORLD.Get_size() - 1 of them)
Peers == 1 .. NumPeers
\* a gradient / a payload: every element the same value 1..MaxVal
Vec(n, v) == [k \in 1 .. n |-> v]
Grads == {Vec(NumElems, v) : v \in 1 .. MaxVal}
\* element counts a completed receive can report: the capacity or one short
Counts == {NumElems - 1, NumElems}

\* ------------------------------------------------------------- Matrix
Zero == Vec(NumElems, 0)
\* Matrix(numRows, numCols) / Matrix::resize: a buffer of that size
NewMatrix == Zero
\* Matrix::add / NVMatrix::add
add(a, b) == [k \in 1 .. Len(a) |-> a[k] + b[k]]
\* Matrix::scale(0)
scale0(a) == [k \in 1 .. Len(a) |-> 0]
\* Matrix::norm2
RECURSIVE SumSq(_, _)
SumSq(a, n) == IF n = 0 THEN 0 ELSE a[n] * a[n] + SumSq(a, n - 1)
norm2(a) == SumSq(a, Len(a))
getNumElements(a) == Len(a)

VARIABLES
    \* NetworkManager
    numWeights,      \* _weights.size()
    pause,           \* _pause
    isPaused,        \* _isPaused
    mpiThread,       \* _mpiThread != NULL
    gpuTmp,          \* _gpuTmp
    \* WeightData, one per channel id
    sendMutex, recvMutex,
    inc, incReady, incCount, recvTmp,
    outgoing, incoming, initialized,
    combiner,
    \* MPI transport
    inflight,        \* send requests issued and not yet completed
    delivered,       \* number of messages delivered to this node
    \* compute thread
    cpc, cid, gradient, numCalls, lastApply, localGrad,
    \* background thread
    bpc, bi,
    \* caller of pauseMPI / resumeMPI
    kpc, inPause,
    \* why the process stopped: "none", "protocol" (Log_Assert), "assert"
    fatal,
    \* history
    hist,
    \* WeightData::id of _weights[0], _weights[1], ... in order
    ids,
    \* per channel id, the weights / increment tensors its owner passes to
    \* sendAndRecv, kept as the sequence of the calls of apply made on them
    weights,
    \* the Weights handles in order of construction
    handles,
    \* history: the last call of update() that took no action, and how many
    noop,
    \* one combiner and the tensors of one call of apply, as numbers
    pol

mgrVars == <<numWeights, pause, isPaused, mpiThread, gpuTmp>>
lockVars == <<sendMutex, recvMutex>>
recvVars == <<inc, incReady, incCount, recvTmp, incoming>>
sendVars == <<outgoing, inflight>>
compVars == <<cpc, cid, gradient, numCalls, lastApply, localGrad>>
bgVars == <<bpc, bi>>
ctlVars == <<kpc, inPause>>
extVars == <<ids, weights, handles, noop, pol>>
vars == <<mgrVars, lockVars, recvVars, sendVars, initialized, combiner, delivered,
          compVars, bgVars, ctlVars, fatal, hist, extVars>>

\* ------------------------------------------------------------- OutgoingWeights
\* outgoing == NULL (WeightData::WeightData)
NullOutgoing == [alloc |-> FALSE, m |-> <<<<>>, <<>>>>, sending |-> 1, pending |-> 2,
                 tmp |-> <<>>, reqs |-> <<>>]

\* OutgoingWeights(id, numRows, numCols): _sending, _pending, _tmp are three
\* matrices; m[1] and m[2] are the two that _sending / _pending point to.
NewOutgoing == [alloc |-> TRUE, m |-> <<NewMatrix, NewMatrix>>, sending |-> 1, pending |-> 2,
                tmp |-> NewMatrix, reqs |-> <<>>]

\* addDelta, first statement: m.copyToHost(*_tmp)
addDeltaCopy(o, g) == [o EXCEPT !.tmp = g]

\* faulty variant of addDelta: the staged delta is added to the sending buffer
addDeltaAddSending(o) == [o EXCEPT !.m[o.sending] = add(@, o.tmp)]
\* addDelta, second statement: _pending->add(*_tmp)
addDeltaAdd(o) == [o EXCEPT !.m[o.pending] = add(@, o.tmp)]

\* a send request: the peer it goes to and the matrix it reads
Handle(p, b) == [peer |-> p, buf |-> b]

RECURSIVE SendTo(_, _)
SendTo(n, b) == IF n = 0 THEN <<>> ELSE Append(SendTo(n - 1, b), Handle(n, b))

\* startSend: one Isend of _sending per other rank, pushed onto _reqs
startSend(o) == [o EXCEPT !.reqs = @ \o SendTo(NumPeers, o.sending)]

\* MPI::Request::Testall
Testall(reqs, infl) == \A k \in 1 .. Len(reqs) : reqs[k] \notin infl

\* faulty variant of sendDone: does not test the requests
sendDoneAlways(o, infl) == TRUE
\* sendDone
sendDone(o, infl) == o.reqs = <<>> \/ Testall(o.reqs, infl)

\* faulty variant of swapPending: zeroes the slot after the exchange
swapPendingZeroAfter(o) == [o EXCEPT !.m[o.pending] = scale0(@), !.sending = o.pending,
                                     !.pending = o.sending, !.reqs = <<>>]
\* faulty variant of swapPending: the sending slot is not zeroed
swapPendingNoZero(o) == [o EXCEPT !.sending = o.pending, !.pending = o.sending, !.reqs = <<>>]
\* swapPending: _sending->scale(0); std::swap(_sending, _pending); _reqs.clear()
swapPending(o) == [o EXCEPT !.m[o.sending] = scale0(@), !.sending = o.pending,
                            !.pending = o.sending, !.reqs = <<>>]

\* ------------------------------------------------------------- IncomingWeights
\* incoming == NULL (WeightData::WeightData)
NullIncoming == [alloc |-> FALSE, started |-> FALSE, req |-> "null", count |-> 0]
\* IncomingWeights(id, tgt)
NewIncoming == [alloc |-> TRUE, started |-> FALSE, req |-> "null", count |-> 0]
\* startRecv after its assertion: _started = true; _req = Irecv(...)
startRecv(r) == [r EXCEPT !.started = TRUE, !.req = "posted", !.count = 0]
\* faulty variant of reset: _started is left set
resetKeepStarted(r) == r
\* reset
reset(r) == [r EXCEPT !.started = FALSE]

\* faulty variant of recvDone: the request is not tested
recvDoneEarly(r, tgt) == "true"
\* faulty variant of recvDone: the received count is not checked
recvDoneNoCheck(r, tgt) == IF r.req # "done" THEN "false" ELSE "true"
\* recvDone: "false" (not complete), "true", or "fatal" (the Log_Assert fails)
recvDone(r, tgt) ==
    IF r.req # "done" THEN "false"
    ELSE IF r.count = getNumElements(tgt) THEN "true" ELSE "fatal"

\* ------------------------------------------------------------- combiner
\* AdagradCombiner(momentum, decay, learningRate): numGradients(0)
NewCombiner == [numGradients |-> 0, magnitude |-> 0]

\* faulty variant of newGradient: the accumulator is overwritten
newGradientOverwrite(g, acc) == g
\* WeightCombiner::newGradient, the accumulator after accumulator.add(gradient)
newGradient(g, acc) == add(acc, g)

\* AdagradCombiner::newGradient, the policy state: ++numGradients, _magnitude += norm2
newGradientState(c, g) == [numGradients |-> c.numGradients + 1,
                           magnitude |-> c.magnitude + norm2(g)]

\* transformGradient, the policy state (the gradient itself is left as it is)
transformGradientState(c, g) == [c EXCEPT !.magnitude = @ + norm2(g)]

\* ------------------------------------------------------------- history
\* Per channel: added = sum of the deltas given to addDelta; sent[p] = sum of the
\* buffers startSend issued to peer p; recvd = sum of the receives recvDone
\* accepted; merged = sum of the buffers merged into inc; drained = sum of the
\* values handed to apply on the ready path; fresh = a merge happened since the
\* last drain; inits = number of runs of initialize; sinceSwap = sum of the
\* deltas added since the last swapPending; lastCycle = that sum at the last
\* swapPending; armed / armedMerged / armedReady = recvTmp, merged and incReady
\* when the outstanding receive was posted; issued = the sending buffer as
\* startSend last handed it to MPI_Isend; irecvs = receives posted by startRecv
\* that the transport has not completed yet.
NewHist == [added |-> Zero, sent |-> [p \in Peers |-> Zero], recvd |-> Zero, merged |-> Zero,
            drained |-> Zero, fresh |-> FALSE, inits |-> 0, sinceSwap |-> Zero,
            lastCycle |-> Zero, armed |-> <<>>, armedMerged |-> Zero, armedReady |-> FALSE,
            issued |-> Zero, irecvs |-> 0]

Running == fatal = "none"

\* ------------------------------------------------------------- Weights handles
\* faulty variant of newId: every channel gets id 0
newIdValueZero(s) == 0
\* NetworkManager::newId, line 404: id = _weights.size()
newIdValue(s) == Len(s)

\* AdagradCombiner::apply as seen by the protocol: the tensors weights and
\* weightsInc are rewritten from grads and the combiner's magnitude (the numbers
\* are AdagradApply below); w records the calls made on them so far
apply(w, grads, c) == Append(w, [grads |-> grads, magnitude |-> c.magnitude])

\* Weights::update, line 148: _numUpdates = 0 in the handle whose update() made
\* the call of sendAndRecv on channel id
afterSendAndRecv(hs, id) ==
    [k \in 1 .. Len(hs) |-> IF hs[k].weightId = id THEN [hs[k] EXCEPT !.numUpdates = 0]
                                                    ELSE hs[k]]

\* a handle the constructors build: _srcWeights (0 for NULL, else the position
\* of the source handle), _epsW, _numUpdates, _weightId, _onGPU
NewWeights(s, e, id) == [src |-> s, epsW |-> e, numUpdates |-> 0, weightId |-> id, onGPU |-> FALSE]

\* the learning-rate coefficients tried: 0 (frozen) and a positive one
EpsW == {0, 1}

\* faulty variant of the test in update(): the coefficient is not looked at
isOwnerAnyEps(h) == h.src = 0
\* Weights::update, line 144: _srcWeights == NULL && _epsW > 0
isOwner(h) == h.src = 0 /\ h.epsW > 0

\* the handles whose update() calls sendAndRecv
Owners(hs) == {k \in 1 .. Len(hs) : isOwner(hs[k])}

\* faulty variant of getNumUpdates: the handle's own field
getNumUpdatesOwn(hs, k) == hs[k].numUpdates
\* Weights::getNumUpdates
RECURSIVE getNumUpdates(_, _)
getNumUpdates(hs, k) ==
    IF hs[k].src # 0 THEN getNumUpdates(hs, hs[k].src) ELSE hs[k].numUpdates

\* Weights::incNumUpdates (the handles after the call)
RECURSIVE incNumUpdates(_, _)
incNumUpdates(hs, k) ==
    IF hs[k].src # 0 THEN incNumUpdates(hs, hs[k].src)
                     ELSE [hs EXCEPT ![k].numUpdates = @ + 1]

NoNoop == [h |-> 0, n |-> 0]
NoPolicy == [variant |-> "none"]

\* the state after the construction of the NetworkManager, with no handle yet
NetInit ==
    /\ numWeights = 0
    /\ pause = FALSE
    /\ isPaused = FALSE
    /\ mpiThread = FALSE
    /\ gpuTmp = <<>>
    /\ sendMutex = [i \in Chan |-> "free"]
    /\ recvMutex = [i \in Chan |-> "free"]
    /\ inc = [i \in Chan |-> <<>>]
    /\ incReady = [i \in Chan |-> FALSE]
    /\ incCount = [i \in Chan |-> 0]
    /\ recvTmp = [i \in Chan |-> <<>>]
    /\ outgoing = [i \in Chan |-> NullOutgoing]
    /\ incoming = [i \in Chan |-> NullIncoming]
    /\ initialized = [i \in Chan |-> FALSE]
    /\ combiner = [i \in Chan |-> NewCombiner]
    /\ inflight = [i \in Chan |-> {}]
    /\ delivered = 0
    /\ cpc = "idle"
    /\ cid = 0
    /\ gradient = <<>>
    /\ numCalls = 0
    /\ lastApply = [path |-> "none", grads |-> <<>>]
    /\ localGrad = <<>>
    /\ bpc = "off"
    /\ bi = 0
    /\ kpc = "none"
    /\ inPause = FALSE
    /\ fatal = "none"
    /\ hist = [i \in Chan |-> NewHist]
    /\ ids = <<>>
    /\ weights = [i \in Chan |-> <<>>]
    /\ handles = <<>>
    /\ noop = NoNoop

Init == NetInit /\ pol = NoPolicy

\* ------------------------------------------------------------- compute thread
\* NetworkManager::newId: _weights.push_back(new WeightData(id, combiner))
newIdBody ==
    /\ numWeights' = numWeights + 1
    /\ sendMutex' = [sendMutex EXCEPT ![numWeights] = "free"]
    /\ recvMutex' = [recvMutex EXCEPT ![numWeights] = "free"]
    /\ incReady' = [incReady EXCEPT ![numWeights] = FALSE]
    /\ incCount' = [incCount EXCEPT ![numWeights] = 0]
    /\ incoming' = [incoming EXCEPT ![numWeights] = NullIncoming]
    /\ outgoing' = [outgoing EXCEPT ![numWeights] = NullOutgoing]
    /\ combiner' = [combiner EXCEPT ![numWeights] = NewCombiner]
    /\ initialized' = [initialized EXCEPT ![numWeights] = FALSE]
    /\ ids' = Append(ids, newIdValue(ids))
    /\ UNCHANGED <<pause, isPaused, mpiThread, gpuTmp, inc, recvTmp, inflight, delivered,
                   compVars, bgVars, ctlVars, fatal, hist>>
    /\ UNCHANGED <<weights, noop, pol>>

\* a call of NetworkManager::newId that is not made by a Weights constructor
newId ==
    /\ Running /\ cpc = "idle" /\ numWeights < MaxChannels
    /\ newIdBody
    /\ UNCHANGED handles

\* NetworkManager::initialize: starts the background thread
initialize ==
    /\ Running /\ cpc = "idle" /\ ~mpiThread
    /\ mpiThread' = TRUE
    /\ bpc' = "loop"
    /\ UNCHANGED <<numWeights, pause, isPaused, gpuTmp, lockVars, recvVars, sendVars,
                   initialized, combiner, delivered, compVars, bi, ctlVars, fatal, hist>>
    /\ UNCHANGED extVars

\* the compute thread moves to statement next and changes nothing else of its own
CGoto(next) == cpc' = next /\ UNCHANGED <<cid, gradient, numCalls, lastApply, localGrad>>

\* the call sendAndRecv(id, gradient, increment, weights, numCases)
sendAndRecvCall ==
    /\ Running /\ cpc = "idle" /\ numCalls < MaxCalls
    /\ \E id \in 0 .. (numWeights - 1), g \in Grads :
          /\ cid' = id
          /\ gradient' = g
          /\ localGrad' = g
    /\ numCalls' = numCalls + 1
    /\ cpc' = "sr_check"
    /\ UNCHANGED <<mgrVars, lockVars, recvVars, sendVars, initialized, combiner, delivered,
                   lastApply, bgVars, ctlVars, fatal, hist>>
    /\ UNCHANGED extVars

\* line 372: if (!w->initialized)
srCheck ==
    /\ Running /\ cpc = "sr_check"
    /\ CGoto(IF initialized[cid] THEN "sr_lockS" ELSE "in_lockS")
    /\ UNCHANGED <<mgrVars, lockVars, recvVars, sendVars, initialized, combiner, delivered,
                   bgVars, ctlVars, fatal, hist>>
    /\ UNCHANGED extVars

\* line 373: ScopedLock lw(w->sendMutex)
inLockS ==
    /\ Running /\ cpc = "in_lockS" /\ sendMutex[cid] = "free"
    /\ sendMutex' = [sendMutex EXCEPT ![cid] = "compute"]
    /\ CGoto("in_lockR")
    /\ UNCHANGED <<mgrVars, recvMutex, recvVars, sendVars, initialized, combiner, delivered,
                   bgVars, ctlVars, fatal, hist>>
    /\ UNCHANGED extVars

\* line 374: ScopedLock lr(w->recvMutex)
inLockR ==
    /\ Running /\ cpc = "in_lockR" /\ recvMutex[cid] = "free"
    /\ recvMutex' = [recvMutex EXCEPT ![cid] = "compute"]
    /\ CGoto("in_outgoing")
    /\ UNCHANGED <<mgrVars, sendMutex, recvVars, sendVars, initialized, combiner, delivered,
                   bgVars, ctlVars, fatal, hist>>
    /\ UNCHANGED extVars

\* faulty variant of initialize: initialized is set before the buffers are sized
inOutgoingFlagFirst ==
    /\ Running /\ cpc = "in_outgoing"
    /\ outgoing' = [outgoing EXCEPT ![cid] = NewOutgoing]
    /\ initialized' = [initialized EXCEPT ![cid] = TRUE]
    /\ CGoto("in_recvTmp")
    /\ UNCHANGED <<mgrVars, lockVars, recvVars, inflight, combiner, delivered,
                   bgVars, ctlVars, fatal, hist>>
    /\ UNCHANGED extVars
\* WeightData::initialize, line 257: outgoing = new OutgoingWeights(...)
inOutgoing ==
    /\ Running /\ cpc = "in_outgoing"
    /\ outgoing' = [outgoing EXCEPT ![cid] = NewOutgoing]
    /\ CGoto("in_recvTmp")
    /\ UNCHANGED <<mgrVars, lockVars, recvVars, inflight, initialized, combiner, delivered,
                   bgVars, ctlVars, fatal, hist>>
    /\ UNCHANGED extVars

\* WeightData::initialize, line 258: recvTmp.resize(numRows, numCols)
inRecvTmp ==
    /\ Running /\ cpc = "in_recvTmp"
    /\ recvTmp' = [recvTmp EXCEPT ![cid] = NewMatrix]
    /\ CGoto("in_inc")
    /\ UNCHANGED <<mgrVars, lockVars, inc, incReady, incCount, incoming, sendVars, initialized,
                   combiner, delivered, bgVars, ctlVars, fatal, hist>>
    /\ UNCHANGED extVars

\* WeightData::initialize, line 259: inc.resize(numRows, numCols)
inInc ==
    /\ Running /\ cpc = "in_inc"
    /\ inc' = [inc EXCEPT ![cid] = NewMatrix]
    /\ CGoto("in_flag")
    /\ UNCHANGED <<mgrVars, lockVars, incReady, incCount, recvTmp, incoming, sendVars,
                   initialized, combiner, delivered, bgVars, ctlVars, fatal, hist>>
    /\ UNCHANGED extVars

\* WeightData::initialize, line 260: initialized = true
inFlag ==
    /\ Running /\ cpc = "in_flag"
    /\ initialized' = [initialized EXCEPT ![cid] = TRUE]
    /\ hist' = [hist EXCEPT ![cid].inits = @ + 1]
    /\ CGoto("in_unlockR")
    /\ UNCHANGED <<mgrVars, lockVars, recvVars, sendVars, combiner, delivered,
                   bgVars, ctlVars, fatal>>
    /\ UNCHANGED extVars

\* line 376: lr goes out of scope
inUnlockR ==
    /\ Running /\ cpc = "in_unlockR"
    /\ recvMutex' = [recvMutex EXCEPT ![cid] = "free"]
    /\ CGoto("in_unlockS")
    /\ UNCHANGED <<mgrVars, sendMutex, recvVars, sendVars, initialized, combiner, delivered,
                   bgVars, ctlVars, fatal, hist>>
    /\ UNCHANGED extVars

\* line 376: lw goes out of scope
inUnlockS ==
    /\ Running /\ cpc = "in_unlockS"
    /\ sendMutex' = [sendMutex EXCEPT ![cid] = "free"]
    /\ CGoto("sr_lockS")
    /\ UNCHANGED <<mgrVars, recvMutex, recvVars, sendVars, initialized, combiner, delivered,
                   bgVars, ctlVars, fatal, hist>>
    /\ UNCHANGED extVars

\* faulty variant of line 379: one send mutex, that of channel 0, for every channel
srLockSFirst ==
    /\ Running /\ cpc = "sr_lockS" /\ sendMutex[0] = "free"
    /\ sendMutex' = [sendMutex EXCEPT ![0] = "compute"]
    /\ CGoto("sr_transform")
    /\ UNCHANGED <<mgrVars, recvMutex, recvVars, sendVars, initialized, combiner, delivered,
                   bgVars, ctlVars, fatal, hist>>
    /\ UNCHANGED extVars
\* line 379: ScopedLock l(w->sendMutex)
srLockS ==
    /\ Running /\ cpc = "sr_lockS" /\ sendMutex[cid] = "free"
    /\ sendMutex' = [sendMutex EXCEPT ![cid] = "compute"]
    /\ CGoto("sr_transform")
    /\ UNCHANGED <<mgrVars, recvMutex, recvVars, sendVars, initialized, combiner, delivered,
                   bgVars, ctlVars, fatal, hist>>
    /\ UNCHANGED extVars

\* line 380: w->combiner->transformGradient(gradient)
srTransform ==
    /\ Running /\ cpc = "sr_transform"
    /\ combiner' = [combiner EXCEPT ![cid] = transformGradientState(@, gradient)]
    /\ CGoto("sr_copy")
    /\ UNCHANGED <<mgrVars, lockVars, recvVars, sendVars, initialized, delivered,
                   bgVars, ctlVars, fatal, hist>>
    /\ UNCHANGED extVars

\* line 381 / 183: addDelta, m.copyToHost(*_tmp)
srCopy ==
    /\ Running /\ cpc = "sr_copy"
    /\ outgoing' = [outgoing EXCEPT ![cid] = addDeltaCopy(@, gradient)]
    /\ CGoto("sr_add")
    /\ UNCHANGED <<mgrVars, lockVars, recvVars, inflight, initialized, combiner, delivered,
                   bgVars, ctlVars, fatal, hist>>
    /\ UNCHANGED extVars

\* line 381 / 184: addDelta, _pending->add(*_tmp)
srAdd ==
    /\ Running /\ cpc = "sr_add"
    /\ outgoing' = [outgoing EXCEPT ![cid] = addDeltaAdd(@)]
    /\ hist' = [hist EXCEPT ![cid].added = add(@, outgoing[cid].tmp),
                            ![cid].sinceSwap = add(@, outgoing[cid].tmp)]
    /\ CGoto("sr_unlockS")
    /\ UNCHANGED <<mgrVars, lockVars, recvVars, inflight, initialized, combiner, delivered,
                   bgVars, ctlVars, fatal>>
    /\ UNCHANGED extVars

\* line 382: l goes out of scope
srUnlockS ==
    /\ Running /\ cpc = "sr_unlockS"
    /\ sendMutex' = [sendMutex EXCEPT ![cid] = "free"]
    /\ CGoto("sr_ready")
    /\ UNCHANGED <<mgrVars, recvMutex, recvVars, sendVars, initialized, combiner, delivered,
                   bgVars, ctlVars, fatal, hist>>
    /\ UNCHANGED extVars

\* line 384: if (w->incReady)
srReady ==
    /\ Running /\ cpc = "sr_ready"
    /\ CGoto(IF incReady[cid] THEN "sr_lockR" ELSE "sr_applyLocal")
    /\ UNCHANGED <<mgrVars, lockVars, recvVars, sendVars, initialized, combiner, delivered,
                   bgVars, ctlVars, fatal, hist>>
    /\ UNCHANGED extVars

\* line 385: ScopedLock l(w->recvMutex)
srLockR ==
    /\ Running /\ cpc = "sr_lockR" /\ recvMutex[cid] = "free"
    /\ recvMutex' = [recvMutex EXCEPT ![cid] = "compute"]
    /\ CGoto("sr_copyInc")
    /\ UNCHANGED <<mgrVars, sendMutex, recvVars, sendVars, initialized, combiner, delivered,
                   bgVars, ctlVars, fatal, hist>>
    /\ UNCHANGED extVars

\* lines 386-390: the two shape assertions; _gpuTmp.resize(w->inc); _gpuTmp.copyFromHost(w->inc)
srCopyInc ==
    /\ Running /\ cpc = "sr_copyInc"
    /\ IF getNumElements(gradient) = getNumElements(inc[cid])
          THEN gpuTmp' = inc[cid] /\ fatal' = fatal
          ELSE gpuTmp' = gpuTmp /\ fatal' = "assert"
    /\ CGoto("sr_newGradient")
    /\ UNCHANGED <<numWeights, pause, isPaused, mpiThread, lockVars, recvVars, sendVars,
                   initialized, combiner, delivered, bgVars, ctlVars, hist>>
    /\ UNCHANGED extVars

\* line 391: w->combiner->newGradient(_gpuTmp, gradient)
srNewGradient ==
    /\ Running /\ cpc = "sr_newGradient"
    /\ gradient' = newGradient(gpuTmp, gradient)
    /\ combiner' = [combiner EXCEPT ![cid] = newGradientState(@, gpuTmp)]
    /\ cpc' = "sr_apply"
    /\ UNCHANGED <<mgrVars, lockVars, recvVars, sendVars, initialized, delivered,
                   cid, numCalls, lastApply, localGrad, bgVars, ctlVars, fatal, hist>>
    /\ UNCHANGED extVars

\* line 392: w->combiner->apply(weights, increment, _gpuTmp, numCases)
srApply ==
    /\ Running /\ cpc = "sr_apply"
    /\ lastApply' = [path |-> "ready", grads |-> gpuTmp]
    /\ hist' = [hist EXCEPT ![cid].drained = add(@, gpuTmp)]
    /\ weights' = [weights EXCEPT ![cid] = apply(@, gpuTmp, combiner[cid])]
    /\ cpc' = "sr_scale"
    /\ UNCHANGED <<mgrVars, lockVars, recvVars, sendVars, initialized, combiner, delivered,
                   cid, gradient, numCalls, localGrad, bgVars, ctlVars, fatal>>
    /\ UNCHANGED <<ids, handles, noop, pol>>

\* lines 393-394: w->inc.scale(0); w->incCount = 0
srScale ==
    /\ Running /\ cpc = "sr_scale"
    /\ inc' = [inc EXCEPT ![cid] = scale0(@)]
    /\ incCount' = [incCount EXCEPT ![cid] = 0]
    /\ hist' = [hist EXCEPT ![cid].fresh = FALSE]
    /\ CGoto("sr_unlockR")
    /\ UNCHANGED <<mgrVars, lockVars, incReady, recvTmp, incoming, sendVars, initialized,
                   combiner, delivered, bgVars, ctlVars, fatal>>
    /\ UNCHANGED extVars

\* line 395: l goes out of scope; sendAndRecv returns, and a calling
\* Weights::update goes on to line 148
srUnlockR ==
    /\ Running /\ cpc = "sr_unlockR"
    /\ recvMutex' = [recvMutex EXCEPT ![cid] = "free"]
    /\ handles' = afterSendAndRecv(handles, cid)
    /\ CGoto("idle")
    /\ UNCHANGED <<mgrVars, sendMutex, recvVars, sendVars, initialized, combiner, delivered,
                   bgVars, ctlVars, fatal, hist>>
    /\ UNCHANGED <<ids, weights, noop, pol>>

\* line 396: w->combiner->apply(weights, increment, gradient, numCases); sendAndRecv
\* returns, and a calling Weights::update goes on to line 148
srApplyLocal ==
    /\ Running /\ cpc = "sr_applyLocal"
    /\ lastApply' = [path |-> "local", grads |-> gradient]
    /\ weights' = [weights EXCEPT ![cid] = apply(@, gradient, combiner[cid])]
    /\ handles' = afterSendAndRecv(handles, cid)
    /\ cpc' = "idle"
    /\ UNCHANGED <<mgrVars, lockVars, recvVars, sendVars, initialized, combiner, delivered,
                   cid, gradient, numCalls, localGrad, bgVars, ctlVars, fatal, hist>>
    /\ UNCHANGED <<ids, noop, pol>>

Compute ==
    \/ newId \/ initialize \/ sendAndRecvCall \/ srCheck
    \/ inLockS \/ inLockR \/ inOutgoing \/ inRecvTmp \/ inInc \/ inFlag
    \/ inUnlockR \/ inUnlockS
    \/ srLockS \/ srTransform \/ srCopy \/ srAdd \/ srUnlockS \/ srReady
    \/ srLockR \/ srCopyInc \/ srNewGradient \/ srApply \/ srScale \/ srUnlockR
    \/ srApplyLocal

\* ------------------------------------------------------------- background thread
\* the background thread moves to statement next, on the same channel
BGoto(next) == bpc' = next /\ bi' = bi

\* line 346: if (_pause)
loopTest ==
    /\ Running /\ bpc = "loop"
    /\ BGoto(IF pause THEN "setPaused" ELSE "clrPaused")
    /\ UNCHANGED <<mgrVars, lockVars, recvVars, sendVars, initialized, combiner, delivered,
                   compVars, ctlVars, fatal, hist>>
    /\ UNCHANGED extVars

\* faulty variant of lines 347-348: _isPaused is not set
loopSetPausedNoAck ==
    /\ Running /\ bpc = "setPaused"
    /\ BGoto("loop")
    /\ UNCHANGED <<mgrVars, lockVars, recvVars, sendVars,
                   initialized, combiner, delivered, compVars, ctlVars, fatal, hist>>
    /\ UNCHANGED extVars
\* faulty variant of lines 347-348: the continue is missing
loopSetPausedNoContinue ==
    /\ Running /\ bpc = "setPaused"
    /\ isPaused' = TRUE
    /\ bpc' = "for" /\ bi' = 0
    /\ UNCHANGED <<numWeights, pause, mpiThread, gpuTmp, lockVars, recvVars, sendVars,
                   initialized, combiner, delivered, compVars, ctlVars, fatal, hist>>
    /\ UNCHANGED extVars
\* lines 347-348: _isPaused = true; continue
loopSetPaused ==
    /\ Running /\ bpc = "setPaused"
    /\ isPaused' = TRUE
    /\ BGoto("loop")
    /\ UNCHANGED <<numWeights, pause, mpiThread, gpuTmp, lockVars, recvVars, sendVars,
                   initialized, combiner, delivered, compVars, ctlVars, fatal, hist>>
    /\ UNCHANGED extVars

\* lines 351-352: _isPaused = false; i = 0
loopClrPaused ==
    /\ Running /\ bpc = "clrPaused"
    /\ isPaused' = FALSE
    /\ bpc' = "for" /\ bi' = 0
    /\ UNCHANGED <<numWeights, pause, mpiThread, gpuTmp, lockVars, recvVars, sendVars,
                   initialized, combiner, delivered, compVars, ctlVars, fatal, hist>>
    /\ UNCHANGED extVars

\* lines 352-356: i < _weights.size(); if (!w->initialized) continue
loopFor ==
    /\ Running /\ bpc = "for"
    /\ IF bi >= numWeights THEN bpc' = "loop" /\ bi' = bi
       ELSE IF ~initialized[bi] THEN bpc' = "for" /\ bi' = bi + 1
       ELSE bpc' = "hr_null" /\ bi' = bi
    /\ UNCHANGED <<mgrVars, lockVars, recvVars, sendVars, initialized, combiner, delivered,
                   compVars, ctlVars, fatal, hist>>
    /\ UNCHANGED extVars

\* handleRecv, lines 264-267: if (incoming == NULL) { new IncomingWeights; startRecv }
hrNull ==
    /\ Running /\ bpc = "hr_null"
    /\ IF incoming[bi].alloc
          THEN UNCHANGED <<incoming, hist>>
          ELSE /\ incoming' = [incoming EXCEPT ![bi] = startRecv(NewIncoming)]
               /\ hist' = [hist EXCEPT ![bi].armed = recvTmp[bi],
                                       ![bi].armedMerged = hist[bi].merged,
                                       ![bi].armedReady = incReady[bi],
                                       ![bi].irecvs = @ + 1]
    /\ BGoto("hr_test")
    /\ UNCHANGED <<mgrVars, lockVars, inc, incReady, incCount, recvTmp, sendVars, initialized,
                   combiner, delivered, compVars, ctlVars, fatal>>
    /\ UNCHANGED extVars

\* handleRecv, line 268: if (incoming->recvDone())
hrTest ==
    /\ Running /\ bpc = "hr_test"
    /\ LET r == recvDone(incoming[bi], recvTmp[bi]) IN
          /\ fatal' = IF r = "fatal" THEN "protocol" ELSE fatal
          /\ BGoto(IF r = "true" THEN "hr_lockR" ELSE IF r = "false" THEN "hs_lock" ELSE bpc)
          /\ hist' = IF r = "true" THEN [hist EXCEPT ![bi].recvd = add(@, recvTmp[bi])] ELSE hist
    /\ UNCHANGED <<mgrVars, lockVars, recvVars, sendVars, initialized, combiner, delivered,
                   compVars, ctlVars>>
    /\ UNCHANGED extVars

\* handleRecv, line 273: ScopedLock l(recvMutex)
hrLockR ==
    /\ Running /\ bpc = "hr_lockR" /\ recvMutex[bi] = "free"
    /\ recvMutex' = [recvMutex EXCEPT ![bi] = "mpi"]
    /\ BGoto("hr_merge")
    /\ UNCHANGED <<mgrVars, sendMutex, recvVars, sendVars, initialized, combiner, delivered,
                   compVars, ctlVars, fatal, hist>>
    /\ UNCHANGED extVars

\* handleRecv, line 275: combiner->newGradient(recvTmp, inc)
hrMerge ==
    /\ Running /\ bpc = "hr_merge"
    /\ inc' = [inc EXCEPT ![bi] = newGradient(recvTmp[bi], @)]
    /\ combiner' = [combiner EXCEPT ![bi] = newGradientState(@, recvTmp[bi])]
    /\ hist' = [hist EXCEPT ![bi].merged = add(@, recvTmp[bi]), ![bi].fresh = TRUE]
    /\ BGoto("hr_ready")
    /\ UNCHANGED <<mgrVars, lockVars, incReady, incCount, recvTmp, incoming, sendVars,
                   initialized, delivered, compVars, ctlVars, fatal>>
    /\ UNCHANGED extVars

\* handleRecv, line 277: incReady = true
hrReady ==
    /\ Running /\ bpc = "hr_ready"
    /\ incReady' = [incReady EXCEPT ![bi] = TRUE]
    /\ BGoto("hr_unlockR")
    /\ UNCHANGED <<mgrVars, lockVars, inc, incCount, recvTmp, incoming, sendVars, initialized,
                   combiner, delivered, compVars, ctlVars, fatal, hist>>
    /\ UNCHANGED extVars

\* faulty variant of line 278: the receive mutex is still held after the merge
hrUnlockRKeep ==
    /\ Running /\ bpc = "hr_unlockR"
    /\ BGoto("hr_reset")
    /\ UNCHANGED <<mgrVars, lockVars, recvVars, sendVars, initialized, combiner, delivered,
                   compVars, ctlVars, fatal, hist>>
    /\ UNCHANGED extVars
\* handleRecv, line 278: l goes out of scope
hrUnlockR ==
    /\ Running /\ bpc = "hr_unlockR"
    /\ recvMutex' = [recvMutex EXCEPT ![bi] = "free"]
    /\ BGoto("hr_reset")
    /\ UNCHANGED <<mgrVars, sendMutex, recvVars, sendVars, initialized, combiner, delivered,
                   compVars, ctlVars, fatal, hist>>
    /\ UNCHANGED extVars

\* handleRecv, line 279: incoming->reset()
hrReset ==
    /\ Running /\ bpc = "hr_reset"
    /\ incoming' = [incoming EXCEPT ![bi] = reset(@)]
    /\ BGoto("hr_start")
    /\ UNCHANGED <<mgrVars, lockVars, inc, incReady, incCount, recvTmp, sendVars, initialized,
                   combiner, delivered, compVars, ctlVars, fatal, hist>>
    /\ UNCHANGED extVars

\* handleRecv, line 280: incoming->startRecv(), with its assert(!_started)
hrStart ==
    /\ Running /\ bpc = "hr_start"
    /\ IF incoming[bi].started
          THEN fatal' = "assert" /\ UNCHANGED <<incoming, hist>>
          ELSE /\ incoming' = [incoming EXCEPT ![bi] = startRecv(@)]
               /\ hist' = [hist EXCEPT ![bi].armed = recvTmp[bi],
                                       ![bi].armedMerged = hist[bi].merged,
                                       ![bi].armedReady = incReady[bi],
                                       ![bi].irecvs = @ + 1]
               /\ fatal' = fatal
    /\ BGoto("hs_lock")
    /\ UNCHANGED <<mgrVars, lockVars, inc, incReady, incCount, recvTmp, sendVars, initialized,
                   combiner, delivered, compVars, ctlVars>>
    /\ UNCHANGED extVars

\* handleSend, line 288: ScopedLock l(sendMutex)
hsLock ==
    /\ Running /\ bpc = "hs_lock" /\ sendMutex[bi] = "free"
    /\ sendMutex' = [sendMutex EXCEPT ![bi] = "mpi"]
    /\ BGoto("hs_test")
    /\ UNCHANGED <<mgrVars, recvMutex, recvVars, sendVars, initialized, combiner, delivered,
                   compVars, ctlVars, fatal, hist>>
    /\ UNCHANGED extVars

\* faulty variant of handleSend: the pending buffer is never exchanged and sent
hsTestSkip ==
    /\ Running /\ bpc = "hs_test"
    /\ BGoto("hs_unlock")
    /\ UNCHANGED <<mgrVars, lockVars, recvVars, sendVars, initialized, combiner, delivered,
                   compVars, ctlVars, fatal, hist>>
    /\ UNCHANGED extVars
\* faulty variant of handleSend: waits for sendDone() with the send mutex held
hsTestWait ==
    /\ Running /\ bpc = "hs_test"
    /\ sendDone(outgoing[bi], inflight[bi])
    /\ BGoto("hs_swap")
    /\ UNCHANGED <<mgrVars, lockVars, recvVars, sendVars, initialized, combiner, delivered,
                   compVars, ctlVars, fatal, hist>>
    /\ UNCHANGED extVars
\* handleSend, line 289: if (outgoing->sendDone())
hsTest ==
    /\ Running /\ bpc = "hs_test"
    /\ BGoto(IF sendDone(outgoing[bi], inflight[bi]) THEN "hs_swap" ELSE "hs_unlock")
    /\ UNCHANGED <<mgrVars, lockVars, recvVars, sendVars, initialized, combiner, delivered,
                   compVars, ctlVars, fatal, hist>>
    /\ UNCHANGED extVars

\* handleSend, line 290: outgoing->swapPending()
hsSwap ==
    /\ Running /\ bpc = "hs_swap"
    /\ outgoing' = [outgoing EXCEPT ![bi] = swapPending(@)]
    /\ hist' = [hist EXCEPT ![bi].lastCycle = hist[bi].sinceSwap,
                            ![bi].sinceSwap = Zero]
    /\ BGoto("hs_start")
    /\ UNCHANGED <<mgrVars, lockVars, recvVars, inflight, initialized, combiner, delivered,
                   compVars, ctlVars, fatal>>
    /\ UNCHANGED extVars

\* handleSend, line 291: outgoing->startSend()
hsStart ==
    /\ Running /\ bpc = "hs_start"
    /\ outgoing' = [outgoing EXCEPT ![bi] = startSend(@)]
    /\ inflight' = [inflight EXCEPT ![bi] = @ \cup {Handle(p, outgoing[bi].sending) : p \in Peers}]
    /\ hist' = [hist EXCEPT ![bi].sent =
                   [p \in Peers |-> add(@[p], outgoing[bi].m[outgoing[bi].sending])],
                            ![bi].issued = outgoing[bi].m[outgoing[bi].sending]]
    /\ BGoto("hs_unlock")
    /\ UNCHANGED <<mgrVars, lockVars, recvVars, initialized, combiner, delivered,
                   compVars, ctlVars, fatal>>
    /\ UNCHANGED extVars

\* handleSend, line 295: l goes out of scope; line 352: ++i
hsUnlock ==
    /\ Running /\ bpc = "hs_unlock"
    /\ sendMutex' = [sendMutex EXCEPT ![bi] = "free"]
    /\ bpc' = "for" /\ bi' = bi + 1
    /\ UNCHANGED <<mgrVars, recvMutex, recvVars, sendVars, initialized, combiner, delivered,
                   compVars, ctlVars, fatal, hist>>
    /\ UNCHANGED extVars

Background ==
    \/ loopTest \/ loopSetPaused \/ loopClrPaused \/ loopFor
    \/ hrNull \/ hrTest \/ hrLockR \/ hrMerge \/ hrReady \/ hrUnlockR \/ hrReset \/ hrStart
    \/ hsLock \/ hsTest \/ hsSwap \/ hsStart \/ hsUnlock

\* the background thread while pauseMPI is never called: _pause stays false and
\* lines 347-348 are never reached
BackgroundUnpaused ==
    \/ loopTest \/ loopClrPaused \/ loopFor
    \/ hrNull \/ hrTest \/ hrLockR \/ hrMerge \/ hrReady \/ hrUnlockR \/ hrReset \/ hrStart
    \/ hsLock \/ hsTest \/ hsSwap \/ hsStart \/ hsUnlock

\* ------------------------------------------------------------- pauseMPI / resumeMPI
\* pauseMPI, line 323: _pause = true
pauseCall ==
    /\ Running /\ kpc = "none"
    /\ pause' = TRUE
    /\ kpc' = "pausing"
    /\ UNCHANGED <<numWeights, isPaused, mpiThread, gpuTmp, lockVars, recvVars, sendVars,
                   initialized, combiner, delivered, compVars, bgVars, inPause, fatal, hist>>
    /\ UNCHANGED extVars

\* pauseMPI, lines 324-328: while (!_isPaused) Sleep; return
pauseReturn ==
    /\ Running /\ kpc = "pausing" /\ isPaused
    /\ kpc' = "none"
    /\ inPause' = TRUE
    /\ UNCHANGED <<mgrVars, lockVars, recvVars, sendVars, initialized, combiner, delivered,
                   compVars, bgVars, fatal, hist>>
    /\ UNCHANGED extVars

\* resumeMPI, line 332: _pause = false
resumeCall ==
    /\ Running /\ kpc = "none"
    /\ pause' = FALSE
    /\ kpc' = "resuming"
    /\ inPause' = FALSE
    /\ UNCHANGED <<numWeights, isPaused, mpiThread, gpuTmp, lockVars, recvVars, sendVars,
                   initialized, combiner, delivered, compVars, bgVars, fatal, hist>>
    /\ UNCHANGED extVars

\* resumeMPI, lines 333-337: while (_isPaused) Sleep; return
resumeReturn ==
    /\ Running /\ kpc = "resuming" /\ ~isPaused
    /\ kpc' = "none"
    /\ UNCHANGED <<mgrVars, lockVars, recvVars, sendVars, initialized, combiner, delivered,
                   compVars, bgVars, inPause, fatal, hist>>
    /\ UNCHANGED extVars

Control == pauseCall \/ pauseReturn \/ resumeCall \/ resumeReturn

\* ------------------------------------------------------------- MPI transport
\* an Isend issued by startSend (line 193) completes
sendComplete ==
    /\ Running
    /\ \E i \in Chan : \E h \in inflight[i] :
          inflight' = [inflight EXCEPT ![i] = @ \ {h}]
    /\ UNCHANGED <<mgrVars, lockVars, recvVars, outgoing, initialized, combiner, delivered,
                   compVars, bgVars, ctlVars, fatal, hist>>
    /\ UNCHANGED extVars

\* a message with tag i arrives for the Irecv posted by startRecv (line 222): its
\* c elements are written to the front of the target buffer and the request
\* completes with count c
deliver ==
    /\ Running /\ delivered < MaxRecv
    /\ \E i \in Chan, v \in 1 .. MaxVal, c \in Counts :
          /\ incoming[i].req = "posted"
          /\ recvTmp' = [recvTmp EXCEPT ![i] = [k \in 1 .. Len(@) |-> IF k <= c THEN v ELSE @[k]]]
          /\ incoming' = [incoming EXCEPT ![i].req = "done", ![i].count = c]
          /\ hist' = [hist EXCEPT ![i].irecvs = @ - 1]
    /\ delivered' = delivered + 1
    /\ UNCHANGED <<mgrVars, lockVars, inc, incReady, incCount, sendVars, initialized, combiner,
                   compVars, bgVars, ctlVars, fatal>>
    /\ UNCHANGED extVars

Transport == sendComplete \/ deliver

Next == Compute \/ Background \/ Control \/ Transport

Spec == Init /\ [][Next]_vars

\* ------------------------------------------------------------- properties
\* statements of handleRecv / handleSend
RecvPcs == {"hr_null", "hr_test", "hr_lockR", "hr_merge", "hr_ready", "hr_unlockR",
            "hr_reset", "hr_start"}
SendPcs == {"hs_lock", "hs_test", "hs_swap", "hs_start", "hs_unlock"}
\* statements of handleRecv after recvDone returned true
MergePcs == {"hr_lockR", "hr_merge", "hr_ready", "hr_unlockR", "hr_reset", "hr_start"}
\* statements of sendAndRecv inside WeightData::initialize's critical section
InitPcs == {"in_outgoing", "in_recvTmp", "in_inc", "in_flag"}
\* statements of sendAndRecv that run only after the channel is initialized
AfterInitPcs == {"sr_lockS", "sr_transform", "sr_copy", "sr_add", "sr_unlockS", "sr_ready",
                 "sr_lockR", "sr_copyInc", "sr_newGradient", "sr_apply", "sr_scale",
                 "sr_unlockR", "sr_applyLocal"}
\* the drain of sendAndRecv (lines 386-394) and the merge of handleRecv (275-277)
DrainPcs == {"sr_copyInc", "sr_newGradient", "sr_apply", "sr_scale", "sr_unlockR"}
InMergePcs == {"hr_merge", "hr_ready", "hr_unlockR"}

Pending(i) == outgoing[i].m[outgoing[i].pending]
Sending(i) == outgoing[i].m[outgoing[i].sending]
\* the background thread is between swapPending and startSend on channel i
Swapped(i) == bpc = "hs_start" /\ bi = i

\* C1: send-side conservation. For every peer, the sum of the buffers startSend has
\* issued plus the pending slot equals the sum of the deltas added; inside
\* handleSend's critical section, between swapPending and startSend, the swapped
\* sending slot is the buffer about to be issued.
C1_SendConservation ==
    \A i \in Chan : outgoing[i].alloc =>
        \A p \in Peers :
            IF Swapped(i)
               THEN add(add(hist[i].sent[p], Sending(i)), Pending(i)) = hist[i].added
               ELSE add(hist[i].sent[p], Pending(i)) = hist[i].added

\* C1 witness: one delta has been issued to the peers and another waits in pending
C1_Witness ==
    \E i \in Chan : /\ outgoing[i].alloc
                    /\ hist[i].sent[1] # Zero
                    /\ Pending(i) # Zero
                    /\ cpc = "idle"

\* C2: receive-side conservation. Every accepted receive is merged once
\* (recvd = merged, plus recvTmp while its merge is about to run), and what has
\* been drained plus the accumulator is what has been merged, except in the one
\* statement of the drain between apply and inc.scale(0); a merge and a drain
\* are never in progress together.
C2_RecvConservation ==
    \A i \in Chan :
        /\ inc[i] # <<>> /\ ~(cpc = "sr_scale" /\ cid = i)
              => add(hist[i].drained, inc[i]) = hist[i].merged
        /\ inc[i] # <<>>
              => hist[i].recvd = IF bi = i /\ bpc \in {"hr_lockR", "hr_merge"}
                                    THEN add(hist[i].merged, recvTmp[i])
                                    ELSE hist[i].merged
        /\ ~(cid = i /\ cpc \in DrainPcs /\ bi = i /\ bpc \in InMergePcs)

\* C2 witness: one receive has been merged and drained, a second one is merged and
\* waits in the accumulator
C2_Witness ==
    \E i \in Chan : /\ inc[i] # <<>>
                    /\ hist[i].drained # Zero
                    /\ inc[i] # Zero
                    /\ cpc = "idle"

\* C3: on the ready path the gradient given to apply is the local gradient of the
\* call plus the accumulated remote deltas.
C3_CombinedUpdate ==
    (cpc = "sr_scale" /\ lastApply.path = "ready")
        => lastApply.grads = add(localGrad, gpuTmp)

\* C4: after a drain the channel is not ready until handleRecv merges again.
C4_DrainClearsReady ==
    \A i \in Chan : (cpc = "idle" /\ ~hist[i].fresh) => ~incReady[i]

\* C6: between the return of pauseMPI and the next call of resumeMPI the
\* background thread executes no statement of handleRecv or handleSend.
C6_PauseSafety == inPause => bpc \notin (RecvPcs \cup SendPcs)

\* C6 witness: paused while sends issued by an earlier pass are still outstanding
C6_Witness ==
    /\ inPause
    /\ \E i \in Chan : initialized[i] /\ inflight[i] # {} /\ incoming[i].req = "posted"

\* a receive on channel i has completed with a count that is not the capacity
Mismatch(i) == incoming[i].req = "done" /\ incoming[i].count # getNumElements(recvTmp[i])

\* C7 (as amended): a receive that completes with a mismatched count is never
\* merged: handleRecv does not get past recvDone, and neither the accumulator nor
\* the ready flag is changed by that receive cycle; the run stops with the
\* protocol error only for such a receive.
C7_MismatchNotMerged ==
    /\ \A i \in Chan : Mismatch(i) =>
          /\ ~(bi = i /\ bpc \in MergePcs)
          /\ hist[i].merged = hist[i].armedMerged
          /\ incReady[i] = hist[i].armedReady
    /\ fatal = "protocol" => Mismatch(bi) /\ bpc = "hr_test"

\* C7 witness: the run has stopped on a short receive that has overwritten the
\* front of the target buffer
C7_Witness ==
    /\ fatal = "protocol"
    /\ Mismatch(bi)
    /\ recvTmp[bi] # hist[bi].armed

\* C7 as stated: in addition, the target buffer is as it was when the receive
\* was posted.
C7_TargetUntouched ==
    \A i \in Chan : Mismatch(i) =>
        /\ ~(bi = i /\ bpc \in MergePcs)
        /\ hist[i].merged = hist[i].armedMerged
        /\ incReady[i] = hist[i].armedReady
        /\ recvTmp[i] = hist[i].armed

Constructed(i) == outgoing[i].alloc /\ recvTmp[i] # <<>> /\ inc[i] # <<>>

\* C8: WeightData::initialize runs at most once per channel, with both locks held
\* by the compute thread; initialized implies that the outgoing buffer, the
\* receive buffer and the accumulator exist, and so does the background thread
\* being in handleRecv or handleSend of the channel.
C8_InitOnce ==
    \A i \in Chan :
        /\ hist[i].inits = IF initialized[i] THEN 1 ELSE 0
        /\ initialized[i] => Constructed(i)
        /\ (bi = i /\ bpc \in (RecvPcs \cup SendPcs)) => Constructed(i)
        /\ (cid = i /\ cpc \in InitPcs)
              => sendMutex[i] = "compute" /\ recvMutex[i] = "compute"
        /\ (cid = i /\ cpc \in AfterInitPcs) => initialized[i]

\* C8 witness: the background thread services a channel on which every
\* sendAndRecv call has been made
C8_Witness ==
    /\ bpc \in RecvPcs
    /\ initialized[bi]
    /\ numCalls = MaxCalls
    /\ cpc = "idle"

\* no request that reads the sending slot of channel i is outstanding
AllComplete(i) == \A h \in inflight[i] : h.buf # outgoing[i].sending

\* C9: sendDone() is true exactly when no request issued for the sending slot is
\* outstanding, and swapPending runs only in such a state.
C9_SwapOnlyWhenDone ==
    \A i \in Chan : outgoing[i].alloc =>
        /\ sendDone(outgoing[i], inflight[i]) <=> AllComplete(i)
        /\ (bi = i /\ bpc = "hs_swap") => AllComplete(i)

\* C9 witness: swapPending is about to run after the requests of a send cycle
\* have all completed
C9_Witness ==
    /\ bpc = "hs_swap"
    /\ outgoing[bi].reqs # <<>>
    /\ hist[bi].added # Zero

\* C10: the pending slot holds exactly the sum of the deltas added since the last
\* swapPending; right after a swap the buffer that was pending holds the sum of
\* the deltas of the finished cycle and the buffer that was sending is zero.
C10_SwapExact ==
    \A i \in Chan : outgoing[i].alloc =>
        /\ Pending(i) = hist[i].sinceSwap
        /\ Swapped(i) => Sending(i) = hist[i].lastCycle /\ Pending(i) = Zero

\* C10 witness: a swap after a cycle that had sent a nonzero buffer hands over the
\* deltas added during that cycle
C10_Witness ==
    \E i \in Chan : /\ Swapped(i)
                    /\ hist[i].lastCycle # Zero
                    /\ hist[i].sent[1] # Zero

\* C11: while send requests of a channel are outstanding they all read the
\* sending buffer, and that buffer still holds exactly what startSend issued;
\* addDelta and the exchange in handleSend never run together on a channel (both
\* hold its send mutex), and after the exchange no request is outstanding.
SendLockPcs == {"sr_transform", "sr_copy", "sr_add", "sr_unlockS"}

C11_SendingSlotStable ==
    \A i \in Chan :
       /\ \A h \in inflight[i] : h.buf = outgoing[i].sending
       /\ inflight[i] # {} => Sending(i) = hist[i].issued
       /\ ~(cpc \in SendLockPcs /\ cid = i /\ bpc \in (SendPcs \ {"hs_lock"}) /\ bi = i)
       /\ Swapped(i) => inflight[i] = {}

\* a delta has just been added under the send mutex while the requests of an
\* earlier, non-zero buffer are still outstanding
C11_Witness ==
    /\ cpc = "sr_unlockS" /\ inflight[cid] # {}
    /\ Sending(cid) # Zero /\ Pending(cid) # Zero

\* C12: a channel never has more than one receive posted and not completed,
\* the model's request field is that receive, the assertion of startRecv never
\* fails, and whenever handleRecv has returned on a channel (the thread is in
\* handleSend for it) the channel has a started receive that is either still
\* posted or completed and not yet consumed.
C12_OneReceiveArmed ==
    /\ fatal # "assert"
    /\ \A i \in Chan :
          /\ hist[i].irecvs <= 1
          /\ (hist[i].irecvs = 1) <=> (incoming[i].req = "posted")
          /\ (bpc = "hr_start" /\ bi = i) => ~incoming[i].started
          /\ (bpc \in SendPcs /\ bi = i) =>
                /\ incoming[i].alloc /\ incoming[i].started
                /\ incoming[i].req \in {"posted", "done"}

\* handleRecv has merged a completed receive and returned with the next one posted
C12_Witness ==
    /\ bpc = "hs_lock" /\ hist[bi].merged # Zero
    /\ incoming[bi].started /\ incoming[bi].req = "posted" /\ hist[bi].irecvs = 1

\* ------------------------------------------------------------- scheduling
\* the statements of a sendAndRecv call that is under way
SendAndRecvStep ==
    \/ srCheck \/ inOutgoing \/ inRecvTmp \/ inInc \/ inFlag \/ inUnlockR \/ inUnlockS
    \/ srTransform \/ srCopy \/ srAdd \/ srUnlockS \/ srReady
    \/ srCopyInc \/ srNewGradient \/ srApply \/ srScale \/ srUnlockR \/ srApplyLocal
\* its pthread_mutex_lock calls
SendAndRecvLock == inLockS \/ inLockR \/ srLockS \/ srLockR

\* Both threads keep running; a thread waiting in pthread_mutex_lock gets the
\* mutex if it is free again and again (the background thread sleeps between its
\* passes with no mutex held).  Nothing is assumed of the transport.
LiveSpec ==
    /\ Init /\ [][Next]_vars
    /\ WF_vars(SendAndRecvStep)
    /\ SF_vars(SendAndRecvLock)
    /\ WF_vars(Background)

\* C5: every sendAndRecv call returns (or the run has been stopped by a fatal
\* error), whatever the transport does.
C5_SendAndRecvReturns == (cpc # "idle") ~> (cpc = "idle" \/ fatal # "none")

\* C5 witness: sendAndRecv has returned twice while the sends of this node are
\* still outstanding and nothing has been received
C5_Witness ==
    /\ cpc = "idle"
    /\ numCalls = MaxCalls
    /\ mpiThread
    /\ delivered = 0
    /\ \E i \in Chan : inflight[i] # {} /\ hist[i].added # Zero

\* ------------------------------------------------------------- Weights handles
\* Weights::Weights(Matrix&, Matrix&, float epsW, float wc, float mom)
newWeights ==
    /\ Running /\ cpc = "idle" /\ numWeights < MaxIds
    /\ newIdBody
    /\ \E e \in EpsW :
          /\ e > 0 => Cardinality(Owners(handles)) < MaxOwners
          /\ handles' = Append(handles, NewWeights(0, e, newIdValue(ids)))

\* Weights::Weights(Weights& srcWeights, float epsW)
newMirror ==
    /\ Running /\ cpc = "idle" /\ numWeights < MaxIds
    /\ newIdBody
    /\ \E s \in 1 .. Len(handles), e \in EpsW :
          handles' = Append(handles, NewWeights(s, e, newIdValue(ids)))

\* Weights::copyToGPU, called once per handle: _onGPU = true
copyToGPU ==
    /\ Running /\ cpc = "idle"
    /\ \E k \in 1 .. Len(handles) :
          /\ ~handles[k].onGPU
          /\ handles' = [handles EXCEPT ![k].onGPU = TRUE]
    /\ UNCHANGED <<mgrVars, lockVars, recvVars, sendVars, initialized, combiner, delivered,
                   compVars, bgVars, ctlVars, fatal, hist, ids, weights, noop, pol>>

\* Weights::update(numCases), up to its call of sendAndRecv
update ==
    /\ Running /\ cpc = "idle"
    /\ \E k \in 1 .. Len(handles), g \in Grads :
          IF isOwner(handles[k])
             THEN IF handles[k].onGPU
                     THEN /\ numCalls < MaxCalls
                          /\ cid' = handles[k].weightId
                          /\ gradient' = g
                          /\ localGrad' = g
                          /\ numCalls' = numCalls + 1
                          /\ cpc' = "sr_check"
                          /\ UNCHANGED <<fatal, noop>>
                     ELSE /\ fatal' = "assert"
                          /\ UNCHANGED <<cpc, cid, gradient, localGrad, numCalls, noop>>
             ELSE /\ noop.n < MaxNoops
                  /\ noop' = [h |-> k, n |-> noop.n + 1]
                  /\ UNCHANGED <<cpc, cid, gradient, localGrad, numCalls, fatal>>
    /\ UNCHANGED <<mgrVars, lockVars, recvVars, sendVars, initialized, combiner, delivered,
                   lastApply, bgVars, ctlVars, hist, ids, weights, handles, pol>>

\* a call of Weights::incNumUpdates on some handle
incNumUpdatesCall ==
    /\ Running /\ cpc = "idle"
    /\ \E k \in 1 .. Len(handles) :
          /\ getNumUpdates(handles, k) < MaxUpdates
          /\ handles' = incNumUpdates(handles, k)
    /\ UNCHANGED <<mgrVars, lockVars, recvVars, sendVars, initialized, combiner, delivered,
                   compVars, bgVars, ctlVars, fatal, hist, ids, weights, noop, pol>>

\* The trainer works through Weights handles only: it builds them, moves them to
\* the GPU and calls update(); the background thread and the transport run as
\* before.  pauseMPI / resumeMPI and incNumUpdates are not called.
HandleNext ==
    \/ newWeights \/ newMirror \/ copyToGPU \/ update \/ initialize
    \/ SendAndRecvStep \/ SendAndRecvLock
    \/ BackgroundUnpaused \/ Transport

HandleSpec == Init /\ [][HandleNext]_vars

\* the k-th WeightData registered has id k-1 and sits at index k-1, and the
\* handle that registered it holds that id
C13_IdsInOrder ==
    /\ Len(ids) = numWeights /\ Len(handles) = numWeights
    /\ \A k \in 1 .. Len(ids) : ids[k] = k - 1 /\ handles[k].weightId = k - 1

\* a step that registers a channel registers one, and leaves it uninitialized
\* with no buffer created or sized
C13_NewChannelBare ==
    numWeights' # numWeights =>
       /\ numWeights' = numWeights + 1
       /\ ~initialized'[numWeights]
       /\ outgoing'[numWeights] = NullOutgoing /\ incoming'[numWeights] = NullIncoming
       /\ recvTmp'[numWeights] = <<>> /\ inc'[numWeights] = <<>>
       /\ ~incReady'[numWeights]

\* C13: ids are handed out in call order, the k-th call returning k-1, for
\* every sequence of constructions of authoritative and mirror handles, and
\* newId leaves the new channel uninitialized with no buffers.
C13_RegisterChannel == []C13_IdsInOrder /\ [][C13_NewChannelBare]_vars

\* a mirror handle was registered after its source's channel had been
\* initialized and served by the background thread
C13_Witness ==
    /\ numWeights = MaxIds
    /\ handles[numWeights].src # 0 /\ handles[numWeights].weightId = numWeights - 1
    /\ initialized[0] /\ hist[0].sent[1] # Zero /\ ~initialized[numWeights - 1]

\* a handle that has a source handle, or whose learning-rate coefficient is 0
Passive(h) == h.src # 0 \/ h.epsW = 0

\* C14: the channel of a mirror or frozen handle stays as newId left it however
\* often update() is called on the handle: never initialized, no outgoing
\* buffer, no delta added, its tensors and combiner untouched and no
\* sendAndRecv call under way for it.
C14_NoopUpdate ==
    \A k \in 1 .. Len(handles) :
       Passive(handles[k]) =>
          LET i == handles[k].weightId
          IN  /\ ~initialized[i] /\ outgoing[i] = NullOutgoing
              /\ hist[i].added = Zero /\ hist[i].merged = Zero
              /\ weights[i] = <<>> /\ combiner[i] = NewCombiner
              /\ cpc # "idle" => cid # i

\* update() has been called on a frozen or mirror handle after remote gradients
\* were merged on this node
C14_Witness ==
    /\ noop.n > 0 /\ Passive(handles[noop.h])
    /\ delivered = MaxRecv
    /\ \E i \in Chan : hist[i].merged # Zero

\* ------------------------------------------------------------- update counts
\* the statements of a sendAndRecv call while nothing has been received
LocalSendAndRecv ==
    \/ srCheck \/ inLockS \/ inLockR \/ inOutgoing \/ inRecvTmp \/ inInc \/ inFlag
    \/ inUnlockR \/ inUnlockS
    \/ srLockS \/ srTransform \/ srCopy \/ srAdd \/ srUnlockS \/ srReady \/ srApplyLocal

\* The trainer alone: NetworkManager::initialize is not called, so there is no
\* background thread and every sendAndRecv takes the local path.
CounterNext ==
    \/ newWeights \/ newMirror \/ copyToGPU \/ update \/ incNumUpdatesCall
    \/ LocalSendAndRecv

CounterSpec == Init /\ [][CounterNext]_vars

\* the step is a call of update() on a mirror handle
MirrorUpdate == noop' # noop /\ handles[noop'.h].src # 0

\* C15 as stated: a call of update() on a mirror increments exactly one
\* _numUpdates field.
C15_UpdateIncrementsOne ==
    [][MirrorUpdate =>
          Cardinality({k \in 1 .. Len(handles) :
                          handles'[k].numUpdates = handles[k].numUpdates + 1}) = 1]_vars

\* a mirror reads the count of its source, and its own field stays 0
C15_SharedCount ==
    \A b \in 1 .. Len(handles) :
       handles[b].src # 0 =>
          /\ getNumUpdates(handles, b) = getNumUpdates(handles, handles[b].src)
          /\ handles[b].numUpdates = 0

\* a call of update() on a mirror changes no _numUpdates field; a step that
\* raises a count raises the field of one authoritative handle by one and
\* leaves every other handle alone
C15_CountSteps ==
    /\ MirrorUpdate => \A k \in 1 .. Len(handles) : handles'[k].numUpdates = handles[k].numUpdates
    /\ \A k \in 1 .. Len(handles) :
          handles'[k].numUpdates > handles[k].numUpdates =>
             /\ handles[k].src = 0
             /\ handles'[k].numUpdates = handles[k].numUpdates + 1
             /\ \A j \in 1 .. Len(handles) : j # k => handles'[j] = handles[j]

\* C15 amended: a mirror always reads the count of its source; update() on a
\* mirror changes no count; incNumUpdates on a mirror changes only the field of
\* the authoritative handle it leads to.
C15_MirrorCount == []C15_SharedCount /\ [][C15_CountSteps]_vars

\* update() has been called on a mirror whose source has a count of 1, raised
\* after an update() of the source had reset it
C15_Witness ==
    /\ noop.n > 0 /\ handles[noop.h].src # 0
    /\ getNumUpdates(handles, noop.h) = 1
    /\ numCalls > 0 /\ cpc = "idle"

\* ------------------------------------------------------------- WeightCombiner::apply
\* NVMatrix::add(b, scale): a + scale * b, element by element
addScaled(a, b, k) == [i \in 1 .. Len(a) |-> a[i] + k * b[i]]

\* sqrt, on the squares it is given
Sqrt(n) == CHOOSE r \in 0 .. n : r * r = n

\* the inputs of one call of apply: the combiner's coefficients (whole numbers
\* that keep every quotient exact), the accumulated magnitude (0, or the squared
\* norm of what has been merged), numCases, and the three tensors
Momenta == {0, 2}
Decays == {0, 1}
Rates == {4}
Magnitudes == {0, 1, 4}
NumCases == {1, 2}
Tensors == {Vec(NumElems, v) : v \in 0 .. MaxVal}

\* WeightCombiner::apply: the tensors previous and weights after the call
combinerStep(c, w, previous, grads, numCases) ==
    LET t1 == addScaled(scale0(w), previous, c.momentum)
        t2 == addScaled(t1, grads, c.learningRate \div numCases)
        t3 == IF c.decay > 0 THEN addScaled(t2, w, -(c.decay * c.learningRate)) ELSE t2
    IN  [finite |-> TRUE, previous |-> t3, weights |-> add(w, t3)]

\* AdagradCombiner::apply: learningRate / sqrt(0) is infinite in floating
\* point, and every element of incTmp, previous and weights is then infinite
\* or not a number (finite is FALSE and the elements are not kept)
adagradStep(c, w, previous, grads, numCases) ==
    IF c.magnitude = 0
       THEN [finite |-> FALSE]
       ELSE LET adaptiveRate == c.learningRate \div Sqrt(c.magnitude)
                t2 == addScaled(scale0(w), grads, adaptiveRate \div numCases)
                t3 == IF c.decay > 0 THEN addScaled(t2, w, -(c.decay * c.learningRate))
                                     ELSE t2
            IN  [finite |-> TRUE, previous |-> t3, weights |-> add(w, t3)]

PolicyInit ==
    /\ NetInit
    /\ pol \in [variant : {"base", "adagrad"},
                c : [momentum : Momenta, decay : Decays, learningRate : Rates,
                     magnitude : Magnitudes],
                numCases : NumCases, w0 : Tensors, p0 : Tensors, grads : Tensors,
                state : {"ready"}, out : {[finite |-> TRUE]}]
    /\ pol.variant = "base" => pol.c.magnitude = 0

netVars == <<mgrVars, lockVars, recvVars, sendVars, initialized, combiner, delivered,
             compVars, bgVars, ctlVars, fatal, hist, ids, weights, handles, noop>>

\* one call of WeightCombiner::apply(weights, previous, grads, numCases)
combinerApply ==
    /\ pol.variant = "base" /\ pol.state = "ready"
    /\ pol' = [pol EXCEPT !.state = "applied",
                          !.out = combinerStep(pol.c, pol.w0, pol.p0, pol.grads, pol.numCases)]
    /\ UNCHANGED netVars

\* one call of AdagradCombiner::apply(weights, previous, grads, numCases)
adagradApply ==
    /\ pol.variant = "adagrad" /\ pol.state = "ready"
    /\ pol' = [pol EXCEPT !.state = "applied",
                          !.out = adagradStep(pol.c, pol.w0, pol.p0, pol.grads, pol.numCases)]
    /\ UNCHANGED netVars

PolicyNext == combinerApply \/ adagradApply

PolicySpec == PolicyInit /\ [][PolicyNext]_vars

\* C16: a call of AdagradCombiner::apply made while the accumulated magnitude
\* is zero ends in an error and writes neither weights nor previous.
C16_ZeroMagnitudeFailsFast ==
    (pol.variant = "adagrad" /\ pol.c.magnitude = 0 /\ pol.state # "ready") =>
       pol.state = "failed" /\ pol.out = [finite |-> TRUE]

\* the step the contract gives for apply, with rate the learning rate of the
\* variant: previous * momentum + grads * (rate / numCases) - weights * decay * rate
Rate(p) == IF p.variant = "base" THEN p.c.learningRate
                                 ELSE p.c.learningRate \div Sqrt(p.c.magnitude)

ContractStep(p) ==
    LET t1 == addScaled(scale0(p.w0), p.p0, p.c.momentum)
        t2 == addScaled(t1, p.grads, Rate(p) \div p.numCases)
    IN  IF p.c.decay > 0 THEN addScaled(t2, p.w0, -(p.c.decay * Rate(p))) ELSE t2

\* C17: after apply, for both variants, previous is the contract's step and
\* weights is the old weights plus that step.
C17_ApplyFormula ==
    (pol.state = "applied" /\ pol.out.finite) =>
       /\ pol.out.previous = ContractStep(pol)
       /\ pol.out.weights = add(pol.w0, ContractStep(pol))

\* ------------------------------------------------------------- two channels
\* a call of NetworkManager::newId while fewer than MaxIds channels exist
newIdPair ==
    /\ Running /\ cpc = "idle" /\ numWeights < MaxIds
    /\ newIdBody
    /\ UNCHANGED handles

\* The trainer registers up to MaxIds channels and calls sendAndRecv on them in
\* any order; pauseMPI / resumeMPI are not called.
PairNext ==
    \/ newIdPair \/ initialize \/ sendAndRecvCall
    \/ SendAndRecvStep \/ SendAndRecvLock
    \/ BackgroundUnpaused \/ Transport

PairSpec == Init /\ [][PairNext]_vars

\* everything a WeightData holds
ChanState(j) == <<outgoing[j], recvTmp[j], inc[j], incReady[j], incCount[j], initialized[j],
                  incoming[j], combiner[j], sendMutex[j], recvMutex[j]>>

\* the step is a statement of sendAndRecv(cid, ...) / of handleRecv or
\* handleSend on channel bi
ComputeStep == cpc # "idle" /\ cpc' # cpc
HandlerStep == bpc \in (RecvPcs \cup SendPcs) /\ (bpc' # bpc \/ bi' # bi)

\* a mutex is held only by a thread that is working on the mutex's channel
LocksOwnChannel ==
    \A j \in Chan :
       /\ sendMutex[j] = "compute" => cpc # "idle" /\ cid = j
       /\ recvMutex[j] = "compute" => cpc # "idle" /\ cid = j
       /\ sendMutex[j] = "mpi" => bpc \in SendPcs /\ bi = j
       /\ recvMutex[j] = "mpi" => bpc \in RecvPcs /\ bi = j

\* a thread that cannot take its next step on a channel is waiting for a
\* mutex of that same channel
WaitsOwnChannel ==
    Running =>
       /\ (cpc \in {"in_lockS", "sr_lockS"} /\ ~ENABLED SendAndRecvLock) => sendMutex[cid] = "mpi"
       /\ (cpc \in {"in_lockR", "sr_lockR"} /\ ~ENABLED SendAndRecvLock) => recvMutex[cid] = "mpi"
       /\ (cpc \notin {"idle", "in_lockS", "sr_lockS", "in_lockR", "sr_lockR"}) =>
             ENABLED SendAndRecvStep
       /\ (bpc = "hs_lock" /\ ~ENABLED hsLock) => sendMutex[bi] = "compute"
       /\ (bpc = "hr_lockR" /\ ~ENABLED hrLockR) => recvMutex[bi] = "compute"
       /\ (bpc \in ((RecvPcs \cup SendPcs) \ {"hs_lock", "hr_lockR"})) => ENABLED Background

\* a statement of an operation on one channel changes nothing of another
OtherChannelsKept ==
    /\ ComputeStep => \A j \in Chan \ {cid} : ChanState(j)' = ChanState(j)
    /\ HandlerStep => \A j \in Chan \ {bi} : ChanState(j)' = ChanState(j)

Held(t) ==
    {<<"send", j>> : j \in {k \in Chan : sendMutex[k] = t}}
       \cup {<<"recv", j>> : j \in {k \in Chan : recvMutex[k] = t}}

\* the mutex the compute thread is about to lock (lines 373, 374, 379, 385)
ComputeWants ==
    IF cpc \in {"in_lockS", "sr_lockS"} THEN {<<"send", cid>>}
    ELSE IF cpc \in {"in_lockR", "sr_lockR"} THEN {<<"recv", cid>>}
    ELSE {}

\* the mutex the background thread is about to lock (lines 273, 288)
MpiWants ==
    IF bpc = "hs_lock" THEN {<<"send", bi>>}
    ELSE IF bpc = "hr_lockR" THEN {<<"recv", bi>>}
    ELSE {}

\* statements of sendAndRecv between the two ScopedLocks of lines 373-374 and
\* the end of their block (line 376)
BothLockedPcs == InitPcs \cup {"in_unlockR"}

\* the background thread holds at most one mutex, over all channels
OneLockAtATime == Cardinality(Held("mpi")) <= 1

\* the compute thread holds two mutexes only inside the block of lines 372-376,
\* and they are the two mutexes of the channel it initializes
BothOnlyInInit ==
    Cardinality(Held("compute")) >= 2 =>
       /\ cpc \in BothLockedPcs
       /\ Held("compute") = {<<"send", cid>>, <<"recv", cid>>}
       /\ ~initialized[cid] \/ cpc = "in_unlockR"

\* the compute thread locks a send mutex only while it holds nothing, and a
\* receive mutex only while it holds nothing or that channel's send mutex
SendBeforeRecv ==
    \A j \in Chan :
       /\ (sendMutex[j] # "compute" /\ sendMutex'[j] = "compute") => Held("compute") = {}
       /\ (recvMutex[j] # "compute" /\ recvMutex'[j] = "compute") =>
             Held("compute") \subseteq {<<"send", j>>}

\* the compute thread waits for a mutex the background thread holds while the
\* background thread waits for a mutex the compute thread holds
CircularWait ==
    /\ ComputeWants \cap Held("mpi") # {}
    /\ MpiWants \cap Held("compute") # {}

\* C21: the background thread never holds more than one mutex; the compute
\* thread holds both mutexes of a channel only while it initializes it, and
\* takes the send mutex before the receive mutex; in no reachable state does
\* each thread wait for a mutex the other holds.
C21_DeadlockFreedom ==
    /\ [](OneLockAtATime /\ BothOnlyInInit /\ ~CircularWait)
    /\ [][SendBeforeRecv]_vars

\* the compute thread holds both mutexes of channel 1 inside initialize while
\* the background thread merges a receive on channel 0 under its receive mutex
C21_Witness ==
    /\ cpc = "in_flag" /\ Held("compute") = {<<"send", 1>>, <<"recv", 1>>}
    /\ bpc = "hr_merge" /\ Held("mpi") = {<<"recv", 0>>}

\* ------------------------------------------------------------- receive target
\* the background thread is at line 275, about to read recvTmp of channel j
MergeReads(j) == bpc = "hr_merge" /\ bi = j

\* an Irecv into recvTmp of channel j is posted and has not completed
Armed(j) == incoming[j].req = "posted"

\* the last receive on channel j has completed and reset() / startRecv() have
\* not run since
Completed(j) == incoming[j].req = "done" /\ incoming[j].started /\ hist[j].irecvs = 0

\* the merge reads recvTmp only after a receive into it completed and before
\* the next one is posted
MergeInWindow == \A j \in Chan : MergeReads(j) => Completed(j) /\ ~Armed(j)

\* a statement of sendAndRecv that changes recvTmp of channel j is the resize
\* of WeightData::initialize (line 258), run before the channel is marked
\* initialized and before any receive on it exists
ResizeOnly(j) ==
    /\ cpc = "in_recvTmp" /\ cid = j
    /\ ~initialized[j] /\ incoming[j] = NullIncoming
    /\ recvTmp'[j] = NewMatrix

\* recvTmp changes only by that resize or by the transport completing an armed
\* receive, and never from recvDone returning true to the next startRecv
WritersOfRecvTmp ==
    \A j \in Chan :
       recvTmp'[j] # recvTmp[j] =>
          IF ComputeStep THEN ResizeOnly(j)
          ELSE Armed(j) /\ ~(bpc \in MergePcs /\ bi = j)

\* the claim as stated: the merge reads recvTmp only in its window, and no
\* statement of the compute thread writes recvTmp
C22_ComputeNeverWrites ==
    /\ []MergeInWindow
    /\ [][ComputeStep => recvTmp' = recvTmp]_vars

\* C22: the merge of handleRecv reads recvTmp only between the completion of
\* a receive and the posting of the next one, never while a receive into it
\* is armed; recvTmp is not written in that window; the compute thread writes
\* recvTmp only when WeightData::initialize sizes it, before any receive on
\* the channel exists.
C22_RecvTmpWindow ==
    /\ []MergeInWindow
    /\ [][WritersOfRecvTmp]_vars

\* the merge is about to read a second completed receive: the first was
\* merged and the receive re-armed since
C22_Witness ==
    \E j \in Chan :
       /\ MergeReads(j) /\ Completed(j)
       /\ hist[j].merged # Zero /\ recvTmp[j] # Zero
       /\ hist[j].inits = 1

\* ------------------------------------------------------------- pause / resume
\* As LiveSpec, and the caller of pauseMPI / resumeMPI keeps polling _isPaused.
\* Nothing is assumed of the transport.
CtlLiveSpec ==
    /\ LiveSpec
    /\ WF_vars(pauseReturn \/ resumeReturn)

\* C19: with the background thread started every pauseMPI returns, and every
\* resumeMPI returns (or the run has been stopped by a fatal error); pauseMPI
\* returns only if the background thread has been started.
C19_Handshake ==
    /\ (kpc = "pausing" /\ mpiThread) ~> (kpc # "pausing" \/ fatal # "none")
    /\ (kpc = "resuming") ~> (kpc = "none" \/ fatal # "none")
    /\ [][(kpc = "pausing" /\ kpc' # "pausing") => mpiThread]_vars

\* pauseMPI has returned with the thread parked while this node's sends are
\* outstanding and nothing has been received
C19_Witness ==
    /\ inPause /\ isPaused /\ mpiThread
    /\ delivered = 0
    /\ \E i \in Chan : inflight[i] # {}

\* ------------------------------------------------------------- send progress
\* the caller of pauseMPI calls resumeMPI afterwards
ResumeAfterPause == inPause /\ resumeCall

\* As CtlLiveSpec, and the transport completes every send it was given, and the
\* background thread is not kept paused for ever.
SendLiveSpec ==
    /\ CtlLiveSpec
    /\ WF_vars(sendComplete)
    /\ SF_vars(ResumeAfterPause)

\* the channels of Spec
Solo == 0 .. (MaxChannels - 1)

\* some delta added to channel i is in no buffer startSend has issued to some
\* peer (the sums sent never exceed the sum added: C1)
Unsent(i) == \E p \in Peers : hist[i].sent[p] # hist[i].added

====
